---------------------------- MODULE Spec2Model ----------------------------
(***************************************************************************)
(* A model of FileSearcher (src/main.py): the classification of a file,    *)
(* the line scan and the structured JSON scan of search_file/search_json,  *)
(* and the concurrent run of search_directory, where the units             *)
(* process_file(path) run on the threads of a ThreadPoolExecutor and merge *)
(* into results / matches_found / files_processed under self.lock.         *)
(*                                                                         *)
(* Text is a sequence of one-character strings.  The byte 0 is the         *)
(* character "NUL".                                                        *)
(***************************************************************************)
EXTENDS Integers, Sequences, FiniteSets, TLC

(***************************************************************************)
(* Bounds of the model.                                                    *)
(***************************************************************************)
MaxFiles == 2
MaxWorkers == 2
MaxLines == 2
MaxDepth == 2

(***************************************************************************)
(* Strings.                                                                *)
(***************************************************************************)
Min(a, b) == IF a < b THEN a ELSE b
Max(a, b) == IF a > b THEN a ELSE b

UpperChars == <<"A","B","C","D","E","F","G","H","I","J","K","L","M",
                "N","O","P","Q","R","S","T","U","V","W","X","Y","Z">>
LowerChars == <<"a","b","c","d","e","f","g","h","i","j","k","l","m",
                "n","o","p","q","r","s","t","u","v","w","x","y","z">>

\* str.lower() on one character
LowerChar(c) ==
    IF \E i \in 1..Len(UpperChars) : UpperChars[i] = c
    THEN LowerChars[CHOOSE i \in 1..Len(UpperChars) : UpperChars[i] = c]
    ELSE c

\* The capital sigma is the character "SIGMA"; its two lowercase forms are
\* "sigma" and, at the end of a word, "fsigma".
IsCased(c) ==
    \/ \E i \in 1..Len(UpperChars) : UpperChars[i] = c \/ LowerChars[i] = c
    \/ c \in {"SIGMA", "sigma", "fsigma"}

\* the characters str.lower() looks through around a capital sigma
CaseIgnorable == {".", ":", "'"}

\* the capital sigma at s[i] ends a word: a cased letter precedes it and none
\* follows it, characters of CaseIgnorable aside
FinalSigma(s, i) ==
    /\ \E j \in 1..(i - 1) :
          IsCased(s[j]) /\ \A k \in (j + 1)..(i - 1) : s[k] \in CaseIgnorable
    /\ ~\E j \in (i + 1)..Len(s) :
          IsCased(s[j]) /\ \A k \in (i + 1)..(j - 1) : s[k] \in CaseIgnorable

\* str.lower(): character by character, but for the capital sigma, whose
\* lowercase form depends on its place in the word
Lower(s) ==
    [i \in 1..Len(s) |->
        IF s[i] = "SIGMA"
        THEN (IF FinalSigma(s, i) THEN "fsigma" ELSE "sigma")
        ELSE LowerChar(s[i])]

\* the operator "in" of two str: t occurs in s as a contiguous substring
Contains(s, t) ==
    \E i \in 1..(Len(s) - Len(t) + 1) : SubSeq(s, i, i + Len(t) - 1) = t

\* str.endswith
EndsWith(s, t) ==
    /\ Len(t) <= Len(s)
    /\ SubSeq(s, Len(s) - Len(t) + 1, Len(s)) = t

\* the characters str.rstrip() with no argument removes
Whitespace == {" ", "\t", "\n", "\r", "\f"}

\* str.rstrip(): every trailing whitespace character is removed
RStrip(s) ==
    LET keep == {i \in 1..Len(s) : s[i] \notin Whitespace}
        last == IF keep = {} THEN 0
                ELSE CHOOSE i \in keep : \A j \in keep : j <= i
    IN  SubSeq(s, 1, last)

\* the lines a text-mode file object iterates over: each ends with its "\n",
\* but for a last line that has none
RECURSIVE SplitLines(_)
SplitLines(s) ==
    IF s = <<>> THEN <<>>
    ELSE LET nl == {i \in 1..Len(s) : s[i] = "\n"}
         IN  IF nl = {} THEN <<s>>
             ELSE LET k == CHOOSE i \in nl : \A j \in nl : i <= j
                  IN  <<SubSeq(s, 1, k)>> \o SplitLines(SubSeq(s, k + 1, Len(s)))

\* str(i) of a small natural number, as text
Digits == <<"0","1","2","3","4","5","6","7","8","9">>
RECURSIVE StrOfNat(_)
StrOfNat(n) == IF n < 10 THEN <<Digits[n + 1]>>
               ELSE StrOfNat(n \div 10) \o <<Digits[(n % 10) + 1]>>

(***************************************************************************)
(* re.search(pattern, path) for the patterns of the model: a pattern is a  *)
(* text where "." matches any character and every other character itself;  *)
(* a pattern with an unbalanced "(" does not compile and re.search raises. *)
(***************************************************************************)
PatternCompiles(p) == \A i \in 1..Len(p) : p[i] # "("

ReSearch(p, s) ==
    \E i \in 1..(Len(s) - Len(p) + 1) :
        \A j \in 1..Len(p) : p[j] = "." \/ p[j] = s[i + j - 1]

(***************************************************************************)
(* Files.  A file is a record                                              *)
(*   path      its path, as os.path.join(root, file) gives it              *)
(*   content   its characters                                              *)
(*   readable  FALSE when open() raises (permissions, a vanished file)     *)
(*   errAt     k > 0 when reading its k-th line raises an I/O error        *)
(*   json      what json.load gives on it: a tree, or JsonDecodeError      *)
(*             (json.JSONDecodeError) or JsonOtherError (any other         *)
(*             exception, such as RecursionError on a deep nesting)        *)
(* A JSON tree is a record tagged by t: "obj" with items, a sequence of    *)
(* [k, v] entries in insertion order; "arr" with items, a sequence of      *)
(* trees; "str" with s; "num" with n; "bool" with b; "null".               *)
(***************************************************************************)
JsonDecodeError == [t |-> "JSONDecodeError"]
JsonOtherError == [t |-> "RecursionError"]

JStr(s) == [t |-> "str", s |-> s]
JNum(n) == [t |-> "num", n |-> n]
JBool(b) == [t |-> "bool", b |-> b]
JNull == [t |-> "null"]
JObj(items) == [t |-> "obj", items |-> items]
JArr(items) == [t |-> "arr", items |-> items]

File(path, content, readable, errAt, json) ==
    [path |-> path, content |-> content, readable |-> readable,
     errAt |-> errAt, json |-> json]

\* the files a directory tree of the model may hold, in the order of os.walk
Catalog == <<
    \* a.txt: "ab\nxy\n"
    File(<<"a",".","t","x","t">>, <<"a","b","\n","x","y","\n">>,
         TRUE, 0, JsonDecodeError),
    \* c.bin: "ab\n", an extension outside the default set
    File(<<"c",".","b","i","n">>, <<"a","b","\n">>, TRUE, 0, JsonDecodeError),
    \* v/d.txt: "xAB \n", in a directory an exclusion pattern may name
    File(<<"v","/","d",".","t","x","t">>, <<"x","A","B"," ","\n">>,
         TRUE, 0, JsonDecodeError),
    \* e.JSON: {"ab": [1, "Ab"]}
    File(<<"e",".","J","S","O","N">>,
         <<"{","\"","a","b","\"",":"," ","[","1",","," ","\"","A","b","\"","]","}","\n">>,
         TRUE, 0,
         JObj(<< [k |-> <<"a","b">>, v |-> JArr(<<JNum(1), JStr(<<"A","b">>)>>)] >>)),
    \* f.txt: "ab\nab\n", whose second line cannot be read
    File(<<"f",".","t","x","t">>, <<"a","b","\n","a","b","\n">>,
         TRUE, 2, JsonDecodeError),
    \* g.txt: "ab\n", which cannot be opened
    File(<<"g",".","t","x","t">>, <<"a","b","\n">>, FALSE, 0, JsonDecodeError),
    \* h.txt: "ab", a zero byte, "\n": a binary file with an accepted extension
    File(<<"h",".","t","x","t">>, <<"a","b","NUL","\n">>, TRUE, 0, JsonDecodeError)
>>

(***************************************************************************)
(* The configuration: the arguments of FileSearcher(...).                  *)
(***************************************************************************)
DefaultExtensions == <<
    <<".","t","x","t">>, <<".","j","s","o","n">>, <<".","s","q","l">>,
    <<".","p","y">>, <<".","m","d">>, <<".","c","s","v">>, <<".","l","o","g">>,
    <<".","x","m","l">>, <<".","h","t","m","l">>, <<".","j","s">>,
    <<".","c","s","s">> >>

\* an optional argument: None, or a list
None == [none |-> TRUE, list |-> <<>>]
Some(list) == [none |-> FALSE, list |-> list]

\* "arg or default" of an optional list argument: None and the empty list
\* are both falsy
OrDefault(arg, default) ==
    IF arg.none \/ arg.list = <<>> THEN default ELSE arg.list

ExcludeArgs == { None,
                 Some(<< <<"v","/">> >>),
                 Some(<< <<"v","/">>, <<"(">> >>) }
ExtensionArgs == { None, Some(<<>>), Some(<< <<".","b","i","n">> >>) }
RunTerms == { <<"a","b">> }

\* the bytes is_binary_file reads
SniffLen == 1024

VARIABLES
    \* the arguments FileSearcher was constructed with
    arg_exclude, arg_extensions, arg_max_workers,
    \* the fields of FileSearcher
    search_term, case_sensitive, exclude_patterns, max_workers,
    file_extensions, results, files_processed, matches_found, lock,
    \* the directory tree: whether the root directory exists, and the files
    \* under it in the order of os.walk
    root_exists, tree,
    \* search_directory: its position, all_files, effective_workers, and the
    \* state of each future
    pc, all_files, effective_workers, futures, queue,
    \* the pool's threads: position in process_file, the index in all_files
    \* of the unit a thread runs, its local matches, and the value it loaded
    \* for a "+="
    wpc, wfile, wmatches, wtmp,
    \* the number of assignments results[path] = ... made to each path
    writes,
    \* one call of search_file taken alone: its position, the file, the lines
    \* the file was written with, the local list matches, and whether the
    \* handler has printed an error
    scan_pc, scan_file, scan_lines, scan_matches, scan_reported,
    \* two calls of search_directory, one after the other: the number of the
    \* call under way, and the mapping the first call returned
    run, first_results

cfgvars == <<arg_exclude, arg_extensions, arg_max_workers, search_term,
             case_sensitive, exclude_patterns, max_workers, file_extensions,
             root_exists, tree>>
shared == <<results, files_processed, matches_found>>
mainvars == <<pc, all_files, effective_workers>>
workervars == <<wpc, wfile, wmatches, wtmp>>
scanvars == <<scan_pc, scan_file, scan_lines, scan_matches, scan_reported>>
runvars == <<shared, lock, mainvars, futures, queue, workervars, writes>>
callvars == <<run, first_results>>
\* what no step of the run changes
fixed == <<cfgvars, scanvars, callvars>>
vars == <<cfgvars, runvars, scanvars, callvars>>

(***************************************************************************)
(* The File Classifier.                                                    *)
(***************************************************************************)
\* is_excluded: any(re.search(pattern, file_path) for pattern in ...),
\* left to right: "true" at the first pattern found, "raise" at a pattern
\* that does not compile, "false" at the end
RECURSIVE AnySearch(_, _)
AnySearch(patterns, path) ==
    IF patterns = <<>> THEN "false"
    ELSE IF ~PatternCompiles(Head(patterns)) THEN "raise"
    ELSE IF ReSearch(Head(patterns), path) THEN "true"
    ELSE AnySearch(Tail(patterns), path)

is_excluded(f) == AnySearch(exclude_patterns, f.path)

\* (mutant) no file is taken for binary
NeverBinary(f) == FALSE

is_binary_file(f) ==
    IF ~f.readable THEN TRUE
    ELSE \E i \in 1..Min(SniffLen, Len(f.content)) : f.content[i] = "NUL"

\* os.path.splitext(path)[1]: from the last dot of the last component, unless
\* only dots precede it there
SplitExt(p) ==
    LET seps == {i \in 1..Len(p) : p[i] = "/"}
        dots == {i \in 1..Len(p) : p[i] = "."}
        sep  == IF seps = {} THEN 0 ELSE CHOOSE i \in seps : \A j \in seps : j <= i
        dot  == IF dots = {} THEN 0 ELSE CHOOSE i \in dots : \A j \in dots : j <= i
    IN  IF dot > sep /\ \E i \in (sep + 1)..(dot - 1) : p[i] # "."
        THEN SubSeq(p, dot, Len(p))
        ELSE <<>>

InList(x, list) == \E i \in 1..Len(list) : list[i] = x

\* is_searchable_file: "raise", or the boolean it returns
is_searchable_file(f) ==
    LET ex == is_excluded(f)
    IN  IF ex = "raise" THEN "raise"
        ELSE IF ex = "true" \/ is_binary_file(f) THEN "false"
        ELSE IF file_extensions = <<>> \/ InList(Lower(SplitExt(f.path)), file_extensions)
             THEN "true" ELSE "false"

(***************************************************************************)
(* The Line Scanner and the Structured Scanner.                            *)
(***************************************************************************)
\* the test of search_file and search_json on a text, under case_sensitive
TermIn(s) ==
    \/ case_sensitive /\ Contains(s, search_term)
    \/ ~case_sensitive /\ Contains(Lower(s), Lower(search_term))

\* (mutant) the lines counted from 0
LineRecordFromZero(file_path, line_num, line) ==
    [line_num |-> line_num - 1, line |-> RStrip(line), file_path |-> file_path]

LineRecord(file_path, line_num, line) ==
    [line_num |-> line_num, line |-> RStrip(line), file_path |-> file_path]

\* the loop "for line_num, line in enumerate(f, 1)" from line i on
RECURSIVE ScanFrom(_, _, _)
ScanFrom(lines, i, file_path) ==
    IF i > Len(lines) THEN <<>>
    ELSE (IF TermIn(lines[i]) THEN <<LineRecord(file_path, i, lines[i])>> ELSE <<>>)
         \o ScanFrom(lines, i + 1, file_path)

\* the line scan of search_file: the matches appended, and whether the scan
\* ended by an exception (open() raised, or reading line errAt did)
LineScan(f) ==
    IF ~f.readable THEN [matches |-> <<>>, failed |-> TRUE]
    ELSE LET lines  == SplitLines(f.content)
             failed == f.errAt \in 1..Len(lines)
             read   == IF failed THEN SubSeq(lines, 1, f.errAt - 1) ELSE lines
         IN  [matches |-> ScanFrom(read, 1, f.path), failed |-> failed]

\* str(v) of a scalar of a parsed JSON document
Str(v) ==
    CASE v.t = "str"  -> v.s
      [] v.t = "num"  -> StrOfNat(v.n)
      [] v.t = "bool" -> IF v.b THEN <<"T","r","u","e">> ELSE <<"F","a","l","s","e">>
      [] v.t = "null" -> <<"N","o","n","e">>

JsonRecord(file_path, current_path, text) ==
    [line_num |-> 0, line |-> current_path \o <<":", " ">> \o text,
     file_path |-> file_path, json_path |-> current_path]

IsContainer(v) == v.t \in {"obj", "arr"}

\* (mutant) every scalar tested through its str() under the configured rule
ScalarMatchesFolded(v, file_path, current_path) ==
    IF TermIn(Str(v)) THEN <<JsonRecord(file_path, current_path, Str(v))>>
    ELSE <<>>

\* the elif chain of search_json on a value that is no dict and no list
ScalarMatches(v, file_path, current_path) ==
    IF v.t = "str" /\ TermIn(v.s)
    THEN <<JsonRecord(file_path, current_path, v.s)>>
    ELSE IF Contains(Str(v), search_term)
    THEN <<JsonRecord(file_path, current_path, Str(v))>>
    ELSE <<>>

\* the match on a key of a dict
KeyMatches(k, file_path, current_path) ==
    IF TermIn(k) THEN <<JsonRecord(file_path, current_path, k)>> ELSE <<>>

\* f"{path}.{k}"
KeyPath(path, k) == path \o <<".">> \o k

\* (mutant) the elements of a list counted from 1
IndexPathFromOne(path, i) == path \o <<"[">> \o StrOfNat(i + 1) \o <<"]">>

\* f"{path}[{i}]"
IndexPath(path, i) == path \o <<"[">> \o StrOfNat(i) \o <<"]">>

RECURSIVE search_json(_, _, _)
RECURSIVE DictFrom(_, _, _, _)
RECURSIVE ListFrom(_, _, _, _)

\* (mutant) the entries of a dict visited from the last to the first
RECURSIVE DictFromReversed(_, _, _, _)
DictFromReversed(items, i, file_path, path) ==
    IF i > Len(items) THEN <<>>
    ELSE LET k == items[i].k
             v == items[i].v
             current_path == KeyPath(path, k)
         IN  DictFromReversed(items, i + 1, file_path, path)
             \o KeyMatches(k, file_path, current_path)
             \o (IF IsContainer(v) THEN search_json(v, file_path, current_path)
                 ELSE ScalarMatches(v, file_path, current_path))

\* "for k, v in data.items()" from entry i on
DictFrom(items, i, file_path, path) ==
    IF i > Len(items) THEN <<>>
    ELSE LET k == items[i].k
             v == items[i].v
             current_path == KeyPath(path, k)
         IN  KeyMatches(k, file_path, current_path)
             \o (IF IsContainer(v) THEN search_json(v, file_path, current_path)
                 ELSE ScalarMatches(v, file_path, current_path))
             \o DictFrom(items, i + 1, file_path, path)

\* "for i, item in enumerate(data)" from element i on (i is 1-based here,
\* the index of the path is the 0-based one)
ListFrom(items, i, file_path, path) ==
    IF i > Len(items) THEN <<>>
    ELSE LET item == items[i]
             current_path == IndexPath(path, i - 1)
         IN  (IF IsContainer(item) THEN search_json(item, file_path, current_path)
              ELSE ScalarMatches(item, file_path, current_path))
             \o ListFrom(items, i + 1, file_path, path)

search_json(data, file_path, path) ==
    IF data.t = "obj" THEN DictFrom(data.items, 1, file_path, path)
    ELSE IF data.t = "arr" THEN ListFrom(data.items, 1, file_path, path)
    ELSE <<>>

IsJsonName(path) == EndsWith(Lower(path), <<".","j","s","o","n">>)

\* (mutant) json.JSONDecodeError reported like any other exception
JsonPassReportsAll(f) ==
    IF ~IsJsonName(f.path) THEN [matches |-> <<>>, failed |-> FALSE]
    ELSE IF f.json \in {JsonDecodeError, JsonOtherError}
    THEN [matches |-> <<>>, failed |-> TRUE]
    ELSE [matches |-> search_json(f.json, f.path, <<"$">>), failed |-> FALSE]

\* the structured pass of search_file on a file the line scan went through:
\* the matches it appends, and whether it ended by an exception that the
\* outer handler reports (json.JSONDecodeError is passed over in silence)
JsonPass(f) ==
    IF ~IsJsonName(f.path) THEN [matches |-> <<>>, failed |-> FALSE]
    ELSE IF f.json = JsonDecodeError THEN [matches |-> <<>>, failed |-> FALSE]
    ELSE IF f.json = JsonOtherError THEN [matches |-> <<>>, failed |-> TRUE]
    ELSE [matches |-> search_json(f.json, f.path, <<"$">>), failed |-> FALSE]

\* search_file: the list it returns.  An exception ends the scan, is
\* reported, and the matches appended so far are returned.
search_file(f) ==
    LET ls == LineScan(f)
    IN  IF ls.failed THEN ls.matches
        ELSE ls.matches \o JsonPass(f).matches

\* whether search_file printed "Error processing ..."
search_file_reports(f) ==
    LineScan(f).failed \/ JsonPass(f).failed

(***************************************************************************)
(* The run: search_directory on the main thread, process_file on the       *)
(* threads of the pool.                                                    *)
(***************************************************************************)
Threads == 1..MaxWorkers

\* the directory trees of the model: at most MaxFiles files of the catalog,
\* in its order
RECURSIVE Pick(_, _)
Pick(i, chosen) ==
    IF i > Len(Catalog) THEN <<>>
    ELSE (IF i \in chosen THEN <<Catalog[i]>> ELSE <<>>) \o Pick(i + 1, chosen)

Trees == {Pick(1, c) : c \in {c \in SUBSET (1..Len(Catalog)) : Cardinality(c) <= MaxFiles}}

\* FileSearcher.__init__
Construct(term, cs, exclude, extensions, workers) ==
    /\ arg_exclude = exclude
    /\ arg_extensions = extensions
    /\ arg_max_workers = workers
    /\ search_term = term
    /\ case_sensitive = cs
    /\ exclude_patterns = OrDefault(exclude, <<>>)
    /\ max_workers = Max(1, workers)
    /\ file_extensions = OrDefault(extensions, DefaultExtensions)
    /\ results = <<>>
    /\ files_processed = 0
    /\ matches_found = 0
    /\ lock = 0

Idle ==
    /\ pc = "walk"
    /\ all_files = <<>>
    /\ effective_workers = 0
    /\ futures = <<>>
    /\ queue = <<>>
    /\ wpc = [w \in Threads |-> "idle"]
    /\ wfile = [w \in Threads |-> 0]
    /\ wmatches = [w \in Threads |-> <<>>]
    /\ wtmp = [w \in Threads |-> 0]
    /\ writes = <<>>

\* no call of search_file is followed on its own
NoScan ==
    /\ scan_pc = "off"
    /\ scan_file = Catalog[1]
    /\ scan_lines = <<>>
    /\ scan_matches = <<>>
    /\ scan_reported = FALSE

\* the first call of search_directory
FirstCall ==
    /\ run = 1
    /\ first_results = <<>>

Init ==
    /\ NoScan
    /\ FirstCall
    /\ \E term \in RunTerms, cs \in BOOLEAN, exclude \in ExcludeArgs,
          extensions \in ExtensionArgs, workers \in 0..MaxWorkers :
            Construct(term, cs, exclude, extensions, workers)
    /\ root_exists \in BOOLEAN
    /\ tree \in (IF root_exists THEN Trees ELSE {<<>>})
    /\ Idle

\* os.walk(self.directory) with no onerror: the error of listing a root that
\* does not exist is dropped, and no file is enumerated
Enumerated == IF root_exists THEN tree ELSE <<>>

\* (mutant) the error of listing a root that does not exist escapes
WalkRaises ==
    /\ pc = "walk"
    /\ all_files' = Enumerated
    /\ IF ~root_exists
       THEN pc' = "raised" /\ UNCHANGED effective_workers
       ELSE IF Len(Enumerated) = 0
       THEN pc' = "returned" /\ UNCHANGED effective_workers
       ELSE /\ effective_workers' = Max(1, Min(max_workers, Len(Enumerated)))
            /\ pc' = "submit"
    /\ UNCHANGED <<fixed, shared, lock, futures, queue, workervars, writes>>

\* (mutant) a pool of one thread per file, whatever max_workers
WalkPoolPerFile ==
    /\ pc = "walk"
    /\ all_files' = Enumerated
    /\ IF Len(Enumerated) = 0
       THEN pc' = "returned" /\ UNCHANGED effective_workers
       ELSE /\ effective_workers' = Len(Enumerated)
            /\ pc' = "submit"
    /\ UNCHANGED <<fixed, shared, lock, futures, queue, workervars, writes>>

\* search_directory up to the pool: the walk, the early return on no file,
\* effective_workers
Walk ==
    /\ pc = "walk"
    /\ all_files' = Enumerated
    /\ IF Len(Enumerated) = 0
       THEN pc' = "returned" /\ UNCHANGED effective_workers
       ELSE /\ effective_workers' = Max(1, Min(max_workers, Len(Enumerated)))
            /\ pc' = "submit"
    /\ UNCHANGED <<fixed, shared, lock, futures, queue, workervars, writes>>

\* executor.submit(self.process_file, file_path), one file at a time
Submit ==
    /\ pc = "submit"
    /\ futures' = Append(futures, "pending")
    /\ queue' = Append(queue, Len(futures) + 1)
    /\ pc' = IF Len(futures) + 1 = Len(all_files) THEN "wait" ELSE "submit"
    /\ UNCHANGED <<fixed, shared, lock, all_files, effective_workers,
                   workervars, writes>>

Completed(i) == futures[i] \in {"done", "raised"}

\* (mutant) the return does not wait for the units: it follows the first
\* completed future
ReturnEarly ==
    /\ pc = "wait"
    /\ \E i \in 1..Len(futures) : Completed(i)
    /\ pc' = "returned"
    /\ UNCHANGED <<fixed, shared, lock, all_files, effective_workers,
                   futures, queue, workervars, writes>>

\* the as_completed loop has seen every future, the executor's exit has
\* joined its threads, and search_directory returns self.results
Return ==
    /\ pc = "wait"
    /\ \A i \in 1..Len(futures) : Completed(i)
    /\ \A w \in Threads : wpc[w] = "idle"
    /\ pc' = "returned"
    /\ UNCHANGED <<fixed, shared, lock, all_files, effective_workers,
                   futures, queue, workervars, writes>>

\* a thread of the pool takes the next work item
Take(w) ==
    /\ w <= effective_workers
    /\ wpc[w] = "idle"
    /\ queue # <<>>
    /\ wfile' = [wfile EXCEPT ![w] = Head(queue)]
    /\ queue' = Tail(queue)
    /\ futures' = [futures EXCEPT ![Head(queue)] = "running"]
    /\ wpc' = [wpc EXCEPT ![w] = "classify"]
    /\ UNCHANGED <<fixed, shared, lock, mainvars, wmatches, wtmp, writes>>

\* the unit of thread w ends: its future completes and the thread is idle
Finish(w, how) ==
    /\ futures' = [futures EXCEPT ![wfile[w]] = how]
    /\ wpc' = [wpc EXCEPT ![w] = "idle"]
    /\ wfile' = [wfile EXCEPT ![w] = 0]
    /\ wmatches' = [wmatches EXCEPT ![w] = <<>>]
    /\ wtmp' = [wtmp EXCEPT ![w] = 0]

\* (mutant) the exception of a unit reaches the caller of search_directory,
\* as "future.result()" in the as_completed loop would have it
ClassifyReraises(w) ==
    /\ wpc[w] = "classify"
    /\ LET r == is_searchable_file(all_files[wfile[w]])
       IN  CASE r = "raise" -> Finish(w, "raised") /\ pc' = "raised"
             [] r = "false" -> Finish(w, "done") /\ UNCHANGED pc
             [] r = "true"  -> /\ wpc' = [wpc EXCEPT ![w] = "search"]
                               /\ UNCHANGED <<pc, futures, wfile, wmatches, wtmp>>
    /\ UNCHANGED <<fixed, shared, lock, all_files, effective_workers, queue,
                   writes>>

\* process_file: "if not self.is_searchable_file(file_path): return"
Classify(w) ==
    /\ wpc[w] = "classify"
    /\ LET r == is_searchable_file(all_files[wfile[w]])
       IN  CASE r = "raise" -> Finish(w, "raised")
             [] r = "false" -> Finish(w, "done")
             [] r = "true"  -> /\ wpc' = [wpc EXCEPT ![w] = "search"]
                               /\ UNCHANGED <<futures, wfile, wmatches, wtmp>>
    /\ UNCHANGED <<fixed, shared, lock, mainvars, queue, writes>>

\* (mutant) process_file without its "if matches:": an empty list is merged
SearchAlwaysMerge(w) ==
    /\ wpc[w] = "search"
    /\ wmatches' = [wmatches EXCEPT ![w] = search_file(all_files[wfile[w]])]
    /\ wpc' = [wpc EXCEPT ![w] = "acquire1"]
    /\ UNCHANGED <<fixed, shared, lock, mainvars, futures, queue, wfile,
                   wtmp, writes>>

\* process_file: "matches = self.search_file(file_path)" and "if matches:"
Search(w) ==
    /\ wpc[w] = "search"
    /\ LET matches == search_file(all_files[wfile[w]])
       IN  /\ wmatches' = [wmatches EXCEPT ![w] = matches]
           /\ wpc' = [wpc EXCEPT ![w] = IF matches # <<>> THEN "acquire1"
                                        ELSE "acquire2"]
    /\ UNCHANGED <<fixed, shared, lock, mainvars, futures, queue, wfile,
                   wtmp, writes>>

\* (mutant) a lock that excludes nobody
CanAcquireAlways == TRUE

\* threading.Lock: acquired only when no thread holds it
CanAcquire == lock = 0

\* "with self.lock:", entry
Acquire(w, at, next) ==
    /\ wpc[w] = at
    /\ CanAcquire
    /\ lock' = w
    /\ wpc' = [wpc EXCEPT ![w] = next]
    /\ UNCHANGED <<fixed, shared, mainvars, futures, queue, wfile, wmatches,
                   wtmp, writes>>

Acquire1(w) == Acquire(w, "acquire1", "write")

\* (mutant) "self.files_processed += 1" without its "with self.lock:"
SkipAcquire2(w) ==
    /\ wpc[w] = "acquire2"
    /\ wpc' = [wpc EXCEPT ![w] = "inc_load"]
    /\ UNCHANGED <<fixed, shared, lock, mainvars, futures, queue, wfile,
                   wmatches, wtmp, writes>>

Acquire2(w) == Acquire(w, "acquire2", "inc_load")

\* (mutant) "self.results = {file_path: matches}": the other keys are lost
StoreOnly(map, file_path, matches) == (file_path :> matches)

\* the mapping after "self.results[file_path] = matches"
Store(map, file_path, matches) == (file_path :> matches) @@ map

\* (mutant) the first scope ends after the assignment to results, and
\* matches_found is added to outside of it
WriteAndRelease(w) ==
    /\ wpc[w] = "write"
    /\ LET file_path == all_files[wfile[w]].path
       IN  /\ results' = Store(results, file_path, wmatches[w])
           /\ writes' = Store(writes, file_path,
                              IF file_path \in DOMAIN writes
                              THEN writes[file_path] + 1 ELSE 1)
    /\ lock' = 0
    /\ wpc' = [wpc EXCEPT ![w] = "add_load"]
    /\ UNCHANGED <<fixed, files_processed, matches_found, mainvars,
                   futures, queue, wfile, wmatches, wtmp>>

\* (mutant) "self.results.setdefault(file_path, []).extend(matches)": the
\* list already under the key is kept and added to
WriteExtend(w) ==
    /\ wpc[w] = "write"
    /\ LET file_path == all_files[wfile[w]].path
       IN  /\ results' = IF file_path \in DOMAIN results
                         THEN [results EXCEPT ![file_path] = @ \o wmatches[w]]
                         ELSE Store(results, file_path, wmatches[w])
           /\ writes' = Store(writes, file_path,
                              IF file_path \in DOMAIN writes
                              THEN writes[file_path] + 1 ELSE 1)
    /\ wpc' = [wpc EXCEPT ![w] = "add_load"]
    /\ UNCHANGED <<fixed, files_processed, matches_found, lock, mainvars,
                   futures, queue, wfile, wmatches, wtmp>>

\* "self.results[file_path] = matches"
Write(w) ==
    /\ wpc[w] = "write"
    /\ LET file_path == all_files[wfile[w]].path
       IN  /\ results' = Store(results, file_path, wmatches[w])
           /\ writes' = Store(writes, file_path,
                              IF file_path \in DOMAIN writes
                              THEN writes[file_path] + 1 ELSE 1)
    /\ wpc' = [wpc EXCEPT ![w] = "add_load"]
    /\ UNCHANGED <<fixed, files_processed, matches_found, lock, mainvars,
                   futures, queue, wfile, wmatches, wtmp>>

\* "self.matches_found += len(matches)": the load ...
AddLoad(w) ==
    /\ wpc[w] = "add_load"
    /\ wtmp' = [wtmp EXCEPT ![w] = matches_found]
    /\ wpc' = [wpc EXCEPT ![w] = "add_store"]
    /\ UNCHANGED <<fixed, shared, lock, mainvars, futures, queue, wfile,
                   wmatches, writes>>

\* ... and the store
AddStore(w) ==
    /\ wpc[w] = "add_store"
    /\ matches_found' = wtmp[w] + Len(wmatches[w])
    /\ wpc' = [wpc EXCEPT ![w] = "release1"]
    /\ UNCHANGED <<fixed, results, files_processed, lock, mainvars, futures,
                   queue, wfile, wmatches, wtmp, writes>>

\* (mutant) the first scope is left with the lock still held
Release1Keeps(w) ==
    /\ wpc[w] = "release1"
    /\ wpc' = [wpc EXCEPT ![w] = "acquire2"]
    /\ UNCHANGED <<fixed, shared, lock, mainvars, futures, queue, wfile,
                   wmatches, wtmp, writes>>

\* the exit of the first "with self.lock:"
Release1(w) ==
    /\ wpc[w] = "release1"
    /\ lock' = IF lock = w THEN 0 ELSE lock
    /\ wpc' = [wpc EXCEPT ![w] = "acquire2"]
    /\ UNCHANGED <<fixed, shared, mainvars, futures, queue, wfile, wmatches,
                   wtmp, writes>>

\* "self.files_processed += 1": the load ...
IncLoad(w) ==
    /\ wpc[w] = "inc_load"
    /\ wtmp' = [wtmp EXCEPT ![w] = files_processed]
    /\ wpc' = [wpc EXCEPT ![w] = "inc_store"]
    /\ UNCHANGED <<fixed, shared, lock, mainvars, futures, queue, wfile,
                   wmatches, writes>>

\* ... and the store
IncStore(w) ==
    /\ wpc[w] = "inc_store"
    /\ files_processed' = wtmp[w] + 1
    /\ wpc' = [wpc EXCEPT ![w] = "release2"]
    /\ UNCHANGED <<fixed, results, matches_found, lock, mainvars, futures,
                   queue, wfile, wmatches, wtmp, writes>>

\* (mutant) process_file returns without releasing the lock of its second
\* scope
Release2Keeps(w) ==
    /\ wpc[w] = "release2"
    /\ Finish(w, "done")
    /\ UNCHANGED <<fixed, shared, lock, mainvars, queue, writes>>

\* the exit of the second "with self.lock:" and the return of process_file
Release2(w) ==
    /\ wpc[w] = "release2"
    /\ lock' = IF lock = w THEN 0 ELSE lock
    /\ Finish(w, "done")
    /\ UNCHANGED <<fixed, shared, mainvars, queue, writes>>

Worker(w) ==
    \/ Take(w) \/ Classify(w) \/ Search(w)
    \/ Acquire1(w) \/ Write(w) \/ AddLoad(w) \/ AddStore(w) \/ Release1(w)
    \/ Acquire2(w) \/ IncLoad(w) \/ IncStore(w) \/ Release2(w)

Next ==
    \/ Walk
    \/ Submit
    \/ Return
    \/ \E w \in Threads : Worker(w)

Spec == Init /\ [][Next]_vars

(***************************************************************************)
(* What a run has to produce, computed without threads.                    *)
(***************************************************************************)
Searchable(f) == is_searchable_file(f) = "true"

\* the run of one thread alone: process_file on each file in turn
RECURSIVE Sequential(_, _, _)
Sequential(files, i, map) ==
    IF i > Len(files) THEN map
    ELSE LET f == files[i]
             m == IF Searchable(f) THEN search_file(f) ELSE <<>>
         IN  Sequential(files, i + 1,
                        IF m # <<>> THEN (f.path :> m) @@ map ELSE map)

\* the sum of the values of a function over a subset S of its domain
RECURSIVE SumOver(_, _)
SumOver(S, fn) ==
    IF S = {} THEN 0
    ELSE LET x == CHOOSE x \in S : TRUE IN fn[x] + SumOver(S \ {x}, fn)

\* the total length of the lists of a results mapping
TotalMatches(map) == SumOver(DOMAIN map, [p \in DOMAIN map |-> Len(map[p])])

Indices == 1..Len(all_files)
SearchableIndices == {i \in Indices : Searchable(all_files[i])}

\* thread w has merged its matches and not yet counted its file
BetweenScopes(w) ==
    /\ wmatches[w] # <<>>
    /\ wpc[w] \in {"add_load", "add_store", "release1", "acquire2",
                   "inc_load", "inc_store"}

(***************************************************************************)
(* C1  (as stated) in every reachable state every path of results has      *)
(* already been counted: the number of keys of results is at most          *)
(* files_processed.                                                        *)
(***************************************************************************)
C1_KeysCounted == Cardinality(DOMAIN results) <= files_processed

(***************************************************************************)
(* C1  (amended) the insertion into results and the increment of           *)
(* matches_found are one step under the lock, and the increment of         *)
(* files_processed is a second step under the same lock: whenever the lock *)
(* is free matches_found is the total length of the lists of results, and  *)
(* the keys of results number at most files_processed plus the units that  *)
(* have merged and not yet counted; after the return, at most              *)
(* files_processed.                                                        *)
(***************************************************************************)
C1_TwoScopes ==
    /\ lock = 0 => matches_found = TotalMatches(results)
    /\ Cardinality(DOMAIN results)
         <= files_processed + Cardinality({w \in Threads : BetweenScopes(w)})
    /\ pc = "returned" => Cardinality(DOMAIN results) <= files_processed

\* a unit has left the first scope, the lock is free, and its path is in
\* results while files_processed does not count it yet
C1_Witness ==
    /\ lock = 0
    /\ \E w \in Threads : wpc[w] = "acquire2" /\ BetweenScopes(w)
    /\ Cardinality(DOMAIN results) > files_processed
    /\ matches_found > 0

(***************************************************************************)
(* C2  when search_directory has returned, files_processed is the number   *)
(* of enumerated files that is_searchable_file accepts and matches_found   *)
(* is the sum of the lengths of the lists search_file gives for them.      *)
(***************************************************************************)
C2_FinalCounters ==
    pc = "returned" =>
        /\ files_processed = Cardinality(SearchableIndices)
        /\ matches_found =
             SumOver(SearchableIndices,
                     [i \in Indices |-> Len(search_file(all_files[i]))])

\* a run of two threads has returned with two files counted and matches found
C2_Witness ==
    /\ pc = "returned"
    /\ effective_workers >= 2
    /\ files_processed >= 2
    /\ matches_found >= 2

(***************************************************************************)
(* C3  the results mapping search_directory returns is the one a single    *)
(* thread produces on the same files and configuration, whatever           *)
(* max_workers and the interleaving.                                       *)
(***************************************************************************)
C3_SameAsOneWorker ==
    pc = "returned" => results = Sequential(all_files, 1, <<>>)

\* a run of two threads has returned two paths
C3_Witness ==
    /\ pc = "returned"
    /\ effective_workers >= 2
    /\ Cardinality(DOMAIN results) >= 2

(***************************************************************************)
(* C4  with exactly one corrupt or unreadable file among the enumerated    *)
(* files, the run never stops before search_directory returns, and at the  *)
(* return results holds, for every other file, the list that file yields   *)
(* in the run on the same files without the bad one.                       *)
(***************************************************************************)
\* a file that cannot be opened, or whose scan ends by an error
Bad(f) == ~f.readable \/ search_file_reports(f)

BadIndices == {i \in 1..Len(tree) : Bad(tree[i])}

\* the files but the i-th
Without(files, i) == SubSeq(files, 1, i - 1) \o SubSeq(files, i + 1, Len(files))

\* some step of the run can be taken: the main thread is not waiting or the
\* wait is over, or a thread has a work item to take, a statement of
\* process_file to execute, or a lock to acquire that is free
CanStep ==
    \/ pc \in {"walk", "submit"}
    \/ pc = "wait" /\ ENABLED Return
    \/ \E w \in 1..effective_workers :
          \/ wpc[w] = "idle" /\ queue # <<>>
          \/ wpc[w] \in {"acquire1", "acquire2"} /\ CanAcquire
          \/ wpc[w] \notin {"idle", "acquire1", "acquire2"}

C4_OneBadFileIsolated ==
    /\ (pc # "returned" /\ ~CanStep) => Cardinality(BadIndices) # 1
    /\ (pc = "returned" /\ Cardinality(BadIndices) = 1) =>
          LET b == CHOOSE i \in BadIndices : TRUE
              expected == Sequential(Without(tree, b), 1, <<>>)
          IN  \A i \in Indices \ {b} :
                 LET p == all_files[i].path
                 IN  /\ p \in DOMAIN results <=> p \in DOMAIN expected
                     /\ p \in DOMAIN results => results[p] = expected[p]

\* a run with one bad file, which was scanned, and another file with matches
\* has returned
C4_Witness ==
    /\ pc = "returned"
    /\ Cardinality(BadIndices) = 1
    /\ \E b \in BadIndices : Searchable(tree[b])
    /\ \E i \in Indices \ BadIndices : all_files[i].path \in DOMAIN results

(***************************************************************************)
(* C5  search_directory returns only when every submitted unit has         *)
(* completed (every file was submitted, no unit is pending or running, no  *)
(* thread holds the lock), and after the return results, files_processed   *)
(* and matches_found do not change.                                        *)
(***************************************************************************)
AllUnitsCompleted ==
    /\ Len(futures) = Len(all_files)
    /\ \A i \in 1..Len(futures) : Completed(i)
    /\ queue = <<>>
    /\ \A w \in Threads : wpc[w] = "idle"
    /\ lock = 0

C5_JoinBeforeReturn ==
    [][/\ pc' = "returned" => AllUnitsCompleted'
       /\ pc = "returned" => UNCHANGED shared]_vars

\* a run that merged matches of several units has returned
C5_Witness ==
    /\ pc = "returned"
    /\ Len(futures) >= 2
    /\ results # <<>>
    /\ AllUnitsCompleted

(***************************************************************************)
(* C6  at every moment a path is a key of results only if its file passed  *)
(* the classification and search_file gave at least one match for it; at   *)
(* the return the keys of results are exactly the paths of such files; no  *)
(* key is assigned more than once.                                         *)
(***************************************************************************)
Produces(f) == Searchable(f) /\ search_file(f) # <<>>

C6_KeysAreMatchingFiles ==
    /\ \A p \in DOMAIN results :
          /\ \E i \in Indices : all_files[i].path = p /\ Produces(all_files[i])
          /\ results[p] # <<>>
    /\ pc = "returned" =>
          \A i \in Indices :
              all_files[i].path \in DOMAIN results <=> Produces(all_files[i])
    /\ \A p \in DOMAIN writes : writes[p] <= 1

\* a run has returned with a file in results and a searchable file without
\* a match, which is not in results
C6_Witness ==
    /\ pc = "returned"
    /\ \E i \in Indices : all_files[i].path \in DOMAIN results
    /\ \E i \in Indices :
          /\ Searchable(all_files[i]) /\ ~Produces(all_files[i])
          /\ all_files[i].path \notin DOMAIN results

(***************************************************************************)
(* C7  (as stated) a file whose scan ends by an error contributes zero     *)
(* matches: the list its unit holds is empty and its path never is a key   *)
(* of results.                                                             *)
(***************************************************************************)
C7_ErrorMeansNoMatch ==
    /\ \A w \in Threads :
          (wfile[w] # 0 /\ wpc[w] \notin {"classify", "search"}
              /\ search_file_reports(all_files[wfile[w]]))
          => wmatches[w] = <<>>
    /\ \A i \in Indices :
          search_file_reports(all_files[i]) => all_files[i].path \notin DOMAIN results

(***************************************************************************)
(* C8  (as stated) a searcher constructed with an empty list of extensions *)
(* accepts every file that is neither excluded nor binary, whatever its    *)
(* extension; with a non-empty list it rejects every file whose lowercased *)
(* extension is not in the list.                                           *)
(***************************************************************************)
C8_EmptyIsWildcard ==
    \A i \in Indices :
        LET f == all_files[i]
        IN  /\ (~arg_extensions.none /\ arg_extensions.list = <<>>
                  /\ is_excluded(f) = "false" /\ ~is_binary_file(f))
               => is_searchable_file(f) = "true"
            /\ (~arg_extensions.none /\ arg_extensions.list # <<>>
                  /\ ~InList(Lower(SplitExt(f.path)), arg_extensions.list))
               => is_searchable_file(f) # "true"

(***************************************************************************)
(* search_file taken alone, on the files of bounded sets: text files of at *)
(* most MaxLines lines, and JSON documents nested at most MaxDepth deep.   *)
(***************************************************************************)
LineBodies == { <<"a","b">>, <<"x","A","B"," ">>, <<"x","y">>, <<>>,
                <<" ","a","b","\t">> }

\* the sequences of at most n elements of S
RECURSIVE SeqsUpTo(_, _)
SeqsUpTo(S, n) ==
    IF n = 0 THEN {<<>>}
    ELSE LET shorter == SeqsUpTo(S, n - 1)
         IN  shorter \cup {Append(q, x) : q \in {q \in shorter : Len(q) = n - 1}, x \in S}

\* the physical lines of a text: every body with its "\n", but possibly
\* for a last body that is not empty
LineLists ==
    LET bodies == SeqsUpTo(LineBodies, MaxLines)
        full(q) == [i \in 1..Len(q) |-> q[i] \o <<"\n">>]
    IN  {full(q) : q \in bodies}
        \cup {[full(q) EXCEPT ![Len(q)] = q[Len(q)]] :
                q \in {q \in bodies : q # <<>> /\ q[Len(q)] # <<>>}}

RECURSIVE Concat(_)
Concat(q) == IF q = <<>> THEN <<>> ELSE Head(q) \o Concat(Tail(q))

TextPaths == { <<"t",".","t","x","t">>, <<"t",".","j","s","o","n">> }
DocPath == <<"j",".","J","S","O","N">>

\* the JSON documents of the model
Leaves == { JStr(<<"a","b">>), JStr(<<"x","A","B">>), JNum(1), JBool(TRUE), JNull }
SiblingLeaves == { JStr(<<"a","b">>), JNum(1) }
Keys == { <<"a","b">>, <<"k">> }

\* the keys of a dict are distinct
KeyPairs == { kk \in Keys \X Keys : kk[1] # kk[2] }

RECURSIVE Documents(_)
Documents(depth) ==
    IF depth = 0 THEN Leaves
    ELSE LET below == Documents(depth - 1)
         IN  below
             \cup { JObj(<<>>), JArr(<<>>) }
             \cup { JObj(<< [k |-> k, v |-> v] >>) : k \in Keys, v \in below }
             \cup { JArr(<< v >>) : v \in below }
             \cup { JObj(<< [k |-> kk[1], v |-> v], [k |-> kk[2], v |-> leaf] >>) :
                      kk \in KeyPairs, v \in below, leaf \in SiblingLeaves }
             \cup { JArr(<< v, leaf >>) : v \in below, leaf \in SiblingLeaves }

\* the text of a document, as json.dumps(doc, ensure_ascii=False) writes it
RECURSIVE Dumps(_)
RECURSIVE DumpsItems(_, _, _)
DumpsItems(items, i, isObj) ==
    IF i > Len(items) THEN <<>>
    ELSE (IF i > 1 THEN <<",", " ">> ELSE <<>>)
         \o (IF isObj
             THEN <<"\"">> \o items[i].k \o <<"\"", ":", " ">> \o Dumps(items[i].v)
             ELSE Dumps(items[i]))
         \o DumpsItems(items, i + 1, isObj)
Dumps(v) ==
    CASE v.t = "obj"  -> <<"{">> \o DumpsItems(v.items, 1, TRUE) \o <<"}">>
      [] v.t = "arr"  -> <<"[">> \o DumpsItems(v.items, 1, FALSE) \o <<"]">>
      [] v.t = "str"  -> <<"\"">> \o v.s \o <<"\"">>
      [] v.t = "num"  -> StrOfNat(v.n)
      [] v.t = "bool" -> IF v.b THEN <<"t","r","u","e">> ELSE <<"f","a","l","s","e">>
      [] v.t = "null" -> <<"n","u","l","l">>

\* {"a": {"b": "findme"}}
ExampleDocument ==
    JObj(<< [k |-> <<"a">>,
             v |-> JObj(<< [k |-> <<"b">>,
                            v |-> JStr(<<"f","i","n","d","m","e">>)] >>)] >>)
ExampleTerm == <<"f","i","n","d","m","e">>

ScanTerms == { <<"a","b">>, <<"1">>, <<"t","r","u","e">> }

\* a term and documents whose lowercase forms differ by the place of a letter:
\* the capital sigma, and texts and a key that end with it
SigmaTerm == <<"SIGMA">>
SigmaDocuments ==
    { JObj(<< [k |-> <<"k">>, v |-> JStr(<<"A","SIGMA">>)] >>),
      JArr(<< JStr(<<"A","SIGMA">>), JStr(<<"SIGMA","b">>) >>),
      JObj(<< [k |-> <<"A","SIGMA">>, v |-> JNull] >>) }

\* a text file of the given lines, whose line errAt (if any) cannot be read;
\* under a JSON name its text is no JSON document
TextFile(path, lines, errAt) ==
    File(path, Concat(lines), TRUE, errAt, JsonDecodeError)

\* a file holding the document doc on one line
DocFile(doc) == File(DocPath, Dumps(doc) \o <<"\n">>, TRUE, 0, doc)

\* a JSON file nested too deep for json.load, which raises RecursionError
DeepFile == File(DocPath, <<"[","[","\"","a","b","\"","]","]","\n">>, TRUE, 0,
                 JsonOtherError)

ScanStart(f, lines) ==
    /\ scan_pc = "lines"
    /\ scan_file = f
    /\ scan_lines = lines
    /\ scan_matches = <<>>
    /\ scan_reported = FALSE

ScanInit ==
    /\ root_exists = TRUE
    /\ tree = <<>>
    /\ Idle
    /\ FirstCall
    /\ \/ /\ \E term \in ScanTerms, cs \in BOOLEAN :
               Construct(term, cs, None, None, 1)
          /\ \/ \E path \in TextPaths, lines \in LineLists :
                  \E errAt \in 0..Len(lines) :
                     ScanStart(TextFile(path, lines, errAt), lines)
             \/ \E doc \in Documents(MaxDepth) :
                     ScanStart(DocFile(doc), <<Dumps(doc) \o <<"\n">>>>)
             \/ ScanStart(DeepFile, <<DeepFile.content>>)
       \/ /\ \E cs \in BOOLEAN : Construct(ExampleTerm, cs, None, None, 1)
          /\ ScanStart(DocFile(ExampleDocument),
                       <<Dumps(ExampleDocument) \o <<"\n">>>>)
       \/ /\ \E cs \in BOOLEAN : Construct(SigmaTerm, cs, None, None, 1)
          /\ \E doc \in SigmaDocuments :
                 ScanStart(DocFile(doc), <<Dumps(doc) \o <<"\n">>>>)

\* search_file, lines 46-55: the line scan, and the handler when it raises
ScanLines ==
    /\ scan_pc = "lines"
    /\ LET ls == LineScan(scan_file)
       IN  /\ scan_matches' = ls.matches
           /\ scan_reported' = ls.failed
           /\ scan_pc' = IF ls.failed THEN "returned" ELSE "json"
    /\ UNCHANGED <<cfgvars, runvars, callvars, scan_file, scan_lines>>

\* search_file, lines 57-66: the structured pass, the handlers, the return
ScanJson ==
    /\ scan_pc = "json"
    /\ LET jp == JsonPass(scan_file)
       IN  /\ scan_matches' = scan_matches \o jp.matches
           /\ scan_reported' = jp.failed
    /\ scan_pc' = "returned"
    /\ UNCHANGED <<cfgvars, runvars, callvars, scan_file, scan_lines>>

ScanNext == ScanLines \/ ScanJson

SpecScan == ScanInit /\ [][ScanNext]_vars

(***************************************************************************)
(* The records of a list of matches, by kind, and what the scanners have   *)
(* to find, stated without the scanners.                                   *)
(***************************************************************************)
IsJsonRecord(r) == "json_path" \in DOMAIN r
IsLineRecord(r) == ~IsJsonRecord(r)
LineRecords == SelectSeq(scan_matches, IsLineRecord)
JsonRecords == SelectSeq(scan_matches, IsJsonRecord)

\* t occurs in s at some offset
Occurs(t, s) ==
    \E off \in 0..(Len(s) - Len(t)) : \A k \in 1..Len(t) : s[off + k] = t[k]

\* s contains the term: case-folded unless case_sensitive
HasTerm(s) ==
    IF case_sensitive THEN Occurs(search_term, s)
    ELSE Occurs(Lower(search_term), Lower(s))

\* the line without its trailing newline, and nothing else removed
DropNewline(line) ==
    IF line # <<>> /\ line[Len(line)] = "\n" THEN SubSeq(line, 1, Len(line) - 1)
    ELSE line

\* the line without its trailing whitespace
RECURSIVE TrimRight(_)
TrimRight(line) ==
    IF line # <<>> /\ line[Len(line)] \in Whitespace
    THEN TrimRight(SubSeq(line, 1, Len(line) - 1))
    ELSE line

\* the number of lines of scan_file read before the error, if any
LinesRead ==
    IF scan_file.errAt \in 1..Len(scan_lines) THEN scan_file.errAt - 1
    ELSE Len(scan_lines)

(***************************************************************************)
(* C9  (as stated) the text of a line record is the line with exactly its  *)
(* trailing newline removed and the rest of the line unchanged.            *)
(***************************************************************************)
C9_OnlyNewlineRemoved ==
    \A j \in 1..Len(LineRecords) :
        LineRecords[j].line = DropNewline(scan_lines[LineRecords[j].line_num])

(***************************************************************************)
(* C9  (amended) the line scan emits exactly one record per line read that *)
(* contains the term (case-folded unless case_sensitive), in line order,   *)
(* with line_num the 1-based position of the line and text the line with   *)
(* all of its trailing whitespace removed (the newline, and any blank, tab *)
(* or other whitespace before it) and the rest unchanged, and no           *)
(* json_path field.                                                        *)
(***************************************************************************)
C9_LineRecords ==
    scan_pc \in {"json", "returned"} =>
        LET hits == {i \in 1..LinesRead : HasTerm(scan_lines[i])}
        IN  /\ Len(LineRecords) = Cardinality(hits)
            /\ \A j \in 1..Len(LineRecords) :
                  LET r == LineRecords[j]
                  IN  /\ DOMAIN r = {"line_num", "line", "file_path"}
                      /\ r.line_num \in hits
                      /\ j > 1 => LineRecords[j - 1].line_num < r.line_num
                      /\ r.line = TrimRight(scan_lines[r.line_num])
                      /\ r.file_path = scan_file.path

\* of two lines only the second has the term, and its record at line 2 has
\* lost more than the newline
C9_Witness ==
    /\ scan_pc = "returned"
    /\ Len(scan_lines) = 2
    /\ Len(scan_matches) = 1
    /\ scan_matches[1].line_num = 2
    /\ scan_matches[1].line # DropNewline(scan_lines[2])
    /\ scan_matches[1].line = TrimRight(scan_lines[2])

(***************************************************************************)
(* The nodes of a parsed document and their paths.                         *)
(***************************************************************************)
KeyStep(k) == [kind |-> "key", key |-> k, index |-> 0]
IndexStep(i) == [kind |-> "index", key |-> <<>>, index |-> i]

\* the entries and elements of a document, each with the steps down to it
RECURSIVE Nodes(_, _)
Nodes(v, steps) ==
    IF v.t = "obj"
    THEN UNION { LET down == Append(steps, KeyStep(v.items[i].k))
                 IN  {[steps |-> down, v |-> v.items[i].v]}
                     \cup Nodes(v.items[i].v, down) : i \in 1..Len(v.items) }
    ELSE IF v.t = "arr"
    THEN UNION { LET down == Append(steps, IndexStep(i - 1))
                 IN  {[steps |-> down, v |-> v.items[i]]}
                     \cup Nodes(v.items[i], down) : i \in 1..Len(v.items) }
    ELSE {}

RECURSIVE Render(_)
Render(steps) ==
    IF steps = <<>> THEN <<"$">>
    ELSE LET last == steps[Len(steps)]
             up   == Render(SubSeq(steps, 1, Len(steps) - 1))
         IN  IF last.kind = "key" THEN up \o <<".">> \o last.key
             ELSE up \o <<"[">> \o StrOfNat(last.index) \o <<"]">>

KeyOf(n) == n.steps[Len(n.steps)]

\* the key of the node matches; its value, a scalar, matches: a text under
\* the configured rule or when it holds the term as it is written, any other
\* scalar when its str() holds the term as it is written
KeyHit(n) == KeyOf(n).kind = "key" /\ HasTerm(KeyOf(n).key)
ValueHit(n) ==
    CASE n.v.t = "str" -> HasTerm(n.v.s) \/ Occurs(search_term, n.v.s)
      [] n.v.t \in {"num", "bool", "null"} -> Occurs(search_term, Str(n.v))
      [] OTHER -> FALSE

RecordOf(n, text) ==
    [line_num |-> 0, line |-> Render(n.steps) \o <<":", " ">> \o text,
     file_path |-> scan_file.path, json_path |-> Render(n.steps)]

\* the root of the document, whose path is "$"
Root == [steps |-> <<>>, v |-> scan_file.json]

\* the structured pass went through a parsed document
Parsed ==
    /\ scan_pc = "returned"
    /\ ~scan_reported
    /\ IsJsonName(scan_file.path)
    /\ scan_file.json # JsonDecodeError

(***************************************************************************)
(* C10  (as stated) search_json reports every matching node of the parsed  *)
(* tree, the root included, with the path of that node.                    *)
(***************************************************************************)
C10_EveryNodeReported ==
    Parsed =>
        \A n \in {Root} \cup Nodes(scan_file.json, <<>>) :
            ValueHit(n) =>
                \E j \in 1..Len(JsonRecords) :
                    JsonRecords[j] = RecordOf(n, Str(n.v))

(***************************************************************************)
(* C10  (amended) search_json reports every matching key and every         *)
(* matching scalar value of the entries of the objects and of the elements *)
(* of the arrays of a parsed document, each with line_num 0 and the path   *)
(* built from "$" by ".key" for an object key and "[index]" for an array   *)
(* index on the way down, and nothing else: the root itself is not tested, *)
(* and a document that is a bare scalar gives no record.  A key and a      *)
(* value of one entry that both match give two records, the key's first.   *)
(* {"a": {"b": "findme"}} and findme give the one record of path $.a.b.    *)
(***************************************************************************)
C10_JsonRecords ==
    Parsed =>
        LET nodes == Nodes(scan_file.json, <<>>)
            keyHits == {n \in nodes : KeyHit(n)}
            valueHits == {n \in nodes : ValueHit(n)}
            recs == JsonRecords
        IN  /\ Len(recs) = Cardinality(keyHits) + Cardinality(valueHits)
            /\ {recs[j] : j \in 1..Len(recs)}
                 = {RecordOf(n, KeyOf(n).key) : n \in keyHits}
                   \cup {RecordOf(n, Str(n.v)) : n \in valueHits}
            /\ \A n \in keyHits \cap valueHits :
                  \E j \in 1..(Len(recs) - 1) :
                      /\ recs[j] = RecordOf(n, KeyOf(n).key)
                      /\ recs[j + 1] = RecordOf(n, Str(n.v))
            /\ (scan_file.json = ExampleDocument /\ search_term = ExampleTerm) =>
                  recs = << [line_num |-> 0,
                             line |-> <<"$",".","a",".","b",":"," ","f","i","n","d","m","e">>,
                             file_path |-> scan_file.path,
                             json_path |-> <<"$",".","a",".","b">>] >>

\* the scan of a document has returned two records of the path $.k.ab, for
\* the key and for the value of one entry of the object under the key k
C10_Witness ==
    /\ Parsed
    /\ Len(JsonRecords) >= 2
    /\ \E j \in 1..(Len(JsonRecords) - 1) :
          /\ JsonRecords[j].json_path = <<"$",".","k",".","a","b">>
          /\ JsonRecords[j + 1].json_path = <<"$",".","k",".","a","b">>
          /\ JsonRecords[j].line # JsonRecords[j + 1].line

(***************************************************************************)
(* The scalar entries and elements of the parsed document, and the records *)
(* of the structured pass at the path of one of them.                      *)
(***************************************************************************)
ScalarNodes == {n \in Nodes(scan_file.json, <<>>) : ~IsContainer(n.v)}
IsText(n) == n.v.t = "str"
RecordsAt(n) ==
    {j \in 1..Len(JsonRecords) : JsonRecords[j].json_path = Render(n.steps)}
Count(b) == IF b THEN 1 ELSE 0

\* the value of the node has a record of its own, next to the one its key
\* may have
ValueReported(n) == Cardinality(RecordsAt(n)) = Count(KeyHit(n)) + 1
ValueSilent(n) == Cardinality(RecordsAt(n)) = Count(KeyHit(n))

(***************************************************************************)
(* C11  (as stated) a number, boolean or null matches exactly when its     *)
(* str() holds the term as it is written, whatever case_sensitive; a text  *)
(* value matches exactly when it contains the term under the configured    *)
(* rule: the branch of the other scalars never adds a match for a text     *)
(* that failed the configured rule.                                        *)
(***************************************************************************)
C11_TextOnlyByConfiguredRule ==
    Parsed =>
        \A n \in ScalarNodes :
            /\ ~IsText(n) =>
                  IF Occurs(search_term, Str(n.v)) THEN ValueReported(n)
                  ELSE ValueSilent(n)
            /\ IsText(n) =>
                  IF HasTerm(n.v.s) THEN ValueReported(n) ELSE ValueSilent(n)

(***************************************************************************)
(* C11  (amended) a number, boolean or null, as the value of an entry or   *)
(* as an element, matches exactly when its str() ("True", "None", "1")     *)
(* holds the term as it is written, whatever case_sensitive; a text value  *)
(* matches exactly when it contains the term under the configured rule or  *)
(* holds the term as it is written: a text that failed the configured rule *)
(* goes through the branch of the other scalars, which reports it when     *)
(* lowercasing hid the term (a capital sigma that ends the text, searched  *)
(* without case).  The record of a value carries str() of the value.       *)
(***************************************************************************)
C11_ScalarValues ==
    Parsed =>
        \A n \in ScalarNodes :
            LET literal == Occurs(search_term, Str(n.v))
                hit == IF IsText(n) THEN HasTerm(n.v.s) \/ literal ELSE literal
            IN  /\ IF hit THEN ValueReported(n) ELSE ValueSilent(n)
                /\ hit => \E j \in RecordsAt(n) :
                             JsonRecords[j] = RecordOf(n, Str(n.v))

\* searched without case, a text value that does not contain the lowercased
\* term in its lowercased form is reported all the same
C11_Witness ==
    /\ Parsed
    /\ ~case_sensitive
    /\ \E n \in ScalarNodes :
          /\ IsText(n)
          /\ ~HasTerm(n.v.s)
          /\ ValueReported(n)

(***************************************************************************)
(* A file of a JSON name whose line scan went through and whose parse      *)
(* fails, and the list a file of the same text under another name gives.   *)
(***************************************************************************)
LineScanCompleted ==
    scan_file.readable /\ scan_file.errAt \notin 1..Len(scan_lines)

ParseAttempted ==
    /\ scan_pc = "returned"
    /\ IsJsonName(scan_file.path)
    /\ LineScanCompleted

\* the same text in a file that has no JSON name
AsText == [scan_file EXCEPT !.path = <<"t",".","t","x","t">>]

\* the matches are those of the same text under another name, record by
\* record, the file_path aside
SameAsText ==
    LET other == search_file(AsText)
    IN  /\ Len(scan_matches) = Len(other)
        /\ \A j \in 1..Len(other) :
              scan_matches[j] = [other[j] EXCEPT !.file_path = scan_file.path]

(***************************************************************************)
(* C12  (as stated) for a file of a JSON name whose content fails to       *)
(* parse, no error is reported and the matches are exactly the line        *)
(* matches, the same as for a file of another name with the same text.     *)
(***************************************************************************)
C12_ParseFailureSilent ==
    (ParseAttempted /\ scan_file.json \in {JsonDecodeError, JsonOtherError}) =>
        /\ ~scan_reported
        /\ JsonRecords = <<>>
        /\ SameAsText

(***************************************************************************)
(* C12  (amended) for a file of a JSON name whose content is not           *)
(* well-formed JSON (json.load raises json.JSONDecodeError) no error is    *)
(* reported; when json.load fails by another exception (RecursionError on  *)
(* a nesting too deep) the outer handler reports it.  Either way the       *)
(* matches are exactly the line matches, the same records in the same      *)
(* order as for a file of another name with the same text.                 *)
(***************************************************************************)
C12_DecodeErrorSilent ==
    ParseAttempted =>
        /\ scan_file.json = JsonDecodeError =>
              ~scan_reported /\ JsonRecords = <<>> /\ SameAsText
        /\ scan_file.json = JsonOtherError =>
              scan_reported /\ JsonRecords = <<>> /\ SameAsText

\* t.json holds two lines with the term and no JSON document: both line
\* records are returned, nothing is reported
C12_Witness ==
    /\ ParseAttempted
    /\ scan_file.json = JsonDecodeError
    /\ ~scan_reported
    /\ Len(scan_matches) = 2
    /\ scan_matches[1].line_num = 1
    /\ scan_matches[2].line_num = 2

(***************************************************************************)
(* Two complete runs over one directory tree with one configuration: the   *)
(* second call of search_directory follows the return of the first, on the *)
(* same FileSearcher (results and the counters as the first call left      *)
(* them) or on one newly constructed with the same arguments.              *)
(***************************************************************************)
SearchAgain(fresh) ==
    /\ pc = "returned"
    /\ run = 1
    /\ run' = 2
    /\ first_results' = results
    /\ pc' = "walk"
    /\ all_files' = <<>>
    /\ effective_workers' = 0
    /\ futures' = <<>>
    /\ queue' = <<>>
    /\ IF fresh
       THEN results' = <<>> /\ files_processed' = 0 /\ matches_found' = 0
       ELSE UNCHANGED shared
    /\ UNCHANGED <<cfgvars, scanvars, lock, workervars, writes>>

NextTwice == Next \/ \E fresh \in BOOLEAN : SearchAgain(fresh)

SpecTwice == Init /\ [][NextTwice]_vars

(***************************************************************************)
(* C13  the mapping the second of two complete runs over an unchanged tree *)
(* returns has the keys of the mapping the first returned and, under each  *)
(* key, the same list of matches in the same order.                        *)
(***************************************************************************)
C13_SecondRunSame ==
    (run = 2 /\ pc = "returned") =>
        /\ DOMAIN results = DOMAIN first_results
        /\ \A path \in DOMAIN results : results[path] = first_results[path]

\* the second run has returned a mapping of two files; the counters tell
\* that it ran on the FileSearcher of the first
C13_Witness ==
    /\ run = 2
    /\ pc = "returned"
    /\ Cardinality(DOMAIN results) = 2
    /\ files_processed = 4

(***************************************************************************)
(* C14  when the walk enumerates no file, the root directory missing       *)
(* included, search_directory goes from the walk straight to its return:   *)
(* it raises nothing, submits no unit to a pool, starts no thread, and     *)
(* returns the empty mapping with files_processed = 0 and                  *)
(* matches_found = 0.                                                      *)
(***************************************************************************)
C14_NoFileReturnsEmpty ==
    Enumerated = <<>> =>
        /\ pc \in {"walk", "returned"}
        /\ futures = <<>>
        /\ queue = <<>>
        /\ \A w \in Threads : wpc[w] = "idle"
        /\ results = <<>>
        /\ files_processed = 0
        /\ matches_found = 0

\* the call on a root directory that does not exist has returned
C14_Witness ==
    /\ ~root_exists
    /\ pc = "returned"
    /\ all_files = <<>>
    /\ results = <<>>

(***************************************************************************)
(* The units under way, and where the unit of a file is.                   *)
(***************************************************************************)
Executing == {w \in Threads : wpc[w] # "idle"}

\* clamp(x, lo, hi)
Clamp(x, lo, hi) == IF x < lo THEN lo ELSE IF x > hi THEN hi ELSE x

\* the number of work items of the queue that are the unit of file i
Queued(i) == Cardinality({k \in 1..Len(queue) : queue[k] = i})
\* the number of threads that run the unit of file i
RunBy(i) == Cardinality({w \in Threads : wfile[w] = i})

(***************************************************************************)
(* C15  at every moment the number of units process_file under way is at   *)
(* most clamp(max_workers, 1, number of files), the max_workers given to   *)
(* the constructor counted as 1 when it is below 1; every enumerated file  *)
(* is submitted exactly once: once the submission is over there is one     *)
(* future per file, and the unit of a file is at one place only, in the    *)
(* queue before it runs, on one thread while it runs, nowhere after.       *)
(***************************************************************************)
C15_BoundedPool ==
    /\ Len(all_files) > 0 =>
          Cardinality(Executing)
              <= Clamp(IF arg_max_workers < 1 THEN 1 ELSE arg_max_workers,
                       1, Len(all_files))
    /\ Len(all_files) = 0 => Executing = {}
    /\ Len(futures) <= Len(all_files)
    /\ pc \in {"wait", "returned"} => Len(futures) = Len(all_files)
    /\ \A i \in 1..Len(all_files) :
          IF i > Len(futures) THEN Queued(i) = 0 /\ RunBy(i) = 0
          ELSE CASE futures[i] = "pending" -> Queued(i) = 1 /\ RunBy(i) = 0
                 [] futures[i] = "running" -> Queued(i) = 0 /\ RunBy(i) = 1
                 [] OTHER                  -> Queued(i) = 0 /\ RunBy(i) = 0

\* two files and max_workers = 1: one unit runs while the other waits in
\* the queue
C15_Witness ==
    /\ Len(all_files) = 2
    /\ arg_max_workers = 1
    /\ Cardinality(Executing) = 1
    /\ Len(queue) = 1
    /\ pc = "wait"

(***************************************************************************)
(* search_file taken alone and the run of search_directory, side by side.  *)
(***************************************************************************)
InitAll == Init \/ ScanInit
NextAll == Next \/ ScanNext
SpecAll == InitAll /\ [][NextAll]_vars

(***************************************************************************)
(* The place of a node in the traversal of a document: the positions, from *)
(* the root down, of the entries and elements on the way to it.  A node    *)
(* comes before another in the traversal when its positions are a proper   *)
(* prefix of the other's (it is an ancestor) or are smaller at the first   *)
(* place where they differ (it is, or is under, an earlier sibling).       *)
(***************************************************************************)
PositionOf(v, step) ==
    IF step.kind = "index" THEN step.index + 1
    ELSE CHOOSE i \in 1..Len(v.items) : v.items[i].k = step.key

ChildAt(v, i) == IF v.t = "obj" THEN v.items[i].v ELSE v.items[i]

RECURSIVE Positions(_, _)
Positions(v, steps) ==
    IF steps = <<>> THEN <<>>
    ELSE LET i == PositionOf(v, Head(steps))
         IN  <<i>> \o Positions(ChildAt(v, i), Tail(steps))

Before(a, b) ==
    \/ Len(a) < Len(b) /\ SubSeq(b, 1, Len(a)) = a
    \/ \E k \in 1..Min(Len(a), Len(b)) :
          /\ a[k] < b[k]
          /\ \A h \in 1..(k - 1) : a[h] = b[h]

\* the node of the document doc a record of the structured pass is about
NodeAt(doc, r) ==
    CHOOSE n \in Nodes(doc, <<>>) : Render(n.steps) = r.json_path

\* the order of the list of matches of the file f
InOrder(matches, f) ==
    \A j, k \in 1..Len(matches) :
        j < k =>
            LET r == matches[j]
                q == matches[k]
            IN  /\ IsJsonRecord(r) => IsJsonRecord(q)
                /\ (IsLineRecord(r) /\ IsLineRecord(q)) => r.line_num < q.line_num
                /\ (IsJsonRecord(r) /\ IsJsonRecord(q)) =>
                      LET n == NodeAt(f.json, r)
                          m == NodeAt(f.json, q)
                          a == Positions(f.json, n.steps)
                          b == Positions(f.json, m.steps)
                      IN  \/ Before(a, b)
                          \/ /\ a = b
                             /\ k = j + 1
                             /\ r.line = r.json_path \o <<":", " ">> \o KeyOf(n).key

\* the file of the directory tree under a path
FileOf(path) == tree[CHOOSE i \in 1..Len(tree) : tree[i].path = path]

(***************************************************************************)
(* C16  in the list of matches of one file every line record comes before  *)
(* every record of the structured pass; the line records are in strictly   *)
(* increasing line number; the records of the structured pass follow the   *)
(* traversal of the document: the entries of an object in insertion order, *)
(* the elements of an array in index order, what is under a container      *)
(* before its next sibling.  This holds of the list search_file builds and *)
(* of every list of results, under every interleaving of the threads.      *)
(***************************************************************************)
C16_RecordOrder ==
    /\ scan_pc # "off" => InOrder(scan_matches, scan_file)
    /\ \A w \in Threads : wmatches[w] # <<>> =>
          InOrder(wmatches[w], all_files[wfile[w]])
    /\ \A path \in DOMAIN results : InOrder(results[path], FileOf(path))

\* one line record, then the records of $.k.ab, under the first entry,
\* before a record of the second entry $.ab
C16_Witness ==
    /\ scan_pc = "returned"
    /\ Len(LineRecords) = 1
    /\ Len(JsonRecords) >= 2
    /\ JsonRecords[1].json_path = <<"$",".","k",".","a","b">>
    /\ JsonRecords[Len(JsonRecords)].json_path = <<"$",".","a","b">>

(***************************************************************************)
(* A file the classification rejects, stated by its reasons: a pattern of  *)
(* exclude_patterns is found in its path; or no pattern is, and the file   *)
(* cannot be read, or has a zero byte among its first SniffLen bytes, or   *)
(* has an extension outside file_extensions.  The patterns are tried in    *)
(* order up to the first one found, and each one tried has to compile.     *)
(***************************************************************************)
Found(i, f) == ReSearch(exclude_patterns[i], f.path)
Tried(i, f) == \A h \in 1..(i - 1) : ~Found(h, f)
Verdict(f) ==
    \A i \in 1..Len(exclude_patterns) :
        Tried(i, f) => PatternCompiles(exclude_patterns[i])

ZeroByteAtStart(f) ==
    \E i \in 1..Len(f.content) : i <= SniffLen /\ f.content[i] = "NUL"

ExtensionAccepted(f) ==
    LET ext == Lower(SplitExt(f.path))
    IN  \E i \in 1..Len(file_extensions) : file_extensions[i] = ext

Rejected(f) ==
    /\ Verdict(f)
    /\ \/ \E i \in 1..Len(exclude_patterns) : Found(i, f)
       \/ ~f.readable
       \/ ZeroByteAtStart(f)
       \/ ~ExtensionAccepted(f)

\* the file of the unit thread w runs
UnitOf(w) == all_files[wfile[w]]

(***************************************************************************)
(* C17  the unit of a file the classification rejects (an exclusion        *)
(* pattern found in its path, a zero byte in its first 1024 bytes, a file  *)
(* that cannot be read for the sniff, an extension outside the accepted    *)
(* set) ends at the classification: search_file is not called, the unit    *)
(* completes without raising, and results, matches_found and               *)
(* files_processed are as they were; no thread is ever past the            *)
(* classification with such a file, a binary file of an accepted extension *)
(* included.                                                               *)
(***************************************************************************)
C17_RejectedFileSkipped ==
    [][\A w \in Threads :
        /\ (wpc[w] = "classify" /\ wpc'[w] # "classify") =>
              (Rejected(UnitOf(w)) =>
                  /\ wpc'[w] = "idle"
                  /\ futures'[wfile[w]] = "done"
                  /\ UNCHANGED <<shared, lock>>)
        /\ (wpc[w] = "search" /\ wpc'[w] # "search") => ~Rejected(UnitOf(w))]_vars

\* h.txt, a binary file of an accepted extension, and g.txt, which cannot
\* be read: both units are done, nothing was counted
C17_Witness ==
    /\ pc = "returned"
    /\ Len(all_files) = 2
    /\ ZeroByteAtStart(all_files[2]) /\ ExtensionAccepted(all_files[2])
    /\ ~all_files[1].readable
    /\ futures = <<"done", "done">>
    /\ results = <<>>
    /\ files_processed = 0
    /\ matches_found = 0

(***************************************************************************)
(* The positions of process_file inside a "with self.lock:", where         *)
(* results, matches_found and files_processed are read and written, and    *)
(* the positions where the file is classified, opened, read and parsed.    *)
(***************************************************************************)
InScope(w) ==
    wpc[w] \in {"write", "add_load", "add_store", "release1",
                "inc_load", "inc_store", "release2"}
AtFile(w) == wpc[w] \in {"classify", "search"}

(***************************************************************************)
(* C18  every write to results, matches_found and files_processed is a     *)
(* step of a thread that holds self.lock; at most one thread is inside a   *)
(* "with self.lock:" at a time, and it is the holder; no thread holds the  *)
(* lock while it classifies, opens, reads or parses a file.                *)
(***************************************************************************)
C18_WritesUnderLock ==
    [][/\ \A w \in Threads : InScope(w) => lock = w
       /\ Cardinality({w \in Threads : InScope(w)}) <= 1
       /\ \A w \in Threads : AtFile(w) => lock # w
       /\ shared' # shared =>
             \E w \in Threads :
                 /\ lock = w
                 /\ InScope(w)
                 /\ wpc'[w] # wpc[w]
                 /\ \A v \in Threads \ {w} : wpc'[v] = wpc[v]]_vars

\* thread 1 is about to store matches_found inside the first scope while
\* thread 2 waits at the entry of a scope with the matches of its file
C18_Witness ==
    /\ lock = 1
    /\ wpc[1] = "add_store"
    /\ wpc[2] = "acquire1"
    /\ wmatches[2] # <<>>

(***************************************************************************)
(* The run under fair scheduling: the main thread and every thread of the  *)
(* pool takes a step when it can keep taking one.  A file operation is one *)
(* step, so it terminates.  threading.Lock promises no order among the     *)
(* threads that wait for it: a waiting thread is only weakly fair.         *)
(***************************************************************************)
Waiting(w) == wpc[w] \in {"acquire1", "acquire2"}

\* thread w of the pool has a step to take: a work item when it is idle,
\* the lock when it waits for it, the next statement otherwise
Runnable(w) ==
    \/ wpc[w] = "idle" /\ w <= effective_workers /\ queue # <<>>
    \/ Waiting(w) /\ CanAcquire
    \/ wpc[w] \notin {"idle", "acquire1", "acquire2"}

WorkerPositions ==
    {"idle", "classify", "search", "acquire1", "write", "add_load",
     "add_store", "release1", "acquire2", "inc_load", "inc_store", "release2"}

\* a step of thread w: its position changes
Steps(w) ==
    /\ Runnable(w)
    /\ \E p \in WorkerPositions \ {wpc[w]} : wpc' = [wpc EXCEPT ![w] = p]

Fairness ==
    /\ WF_vars(Walk)
    /\ WF_vars(Submit)
    /\ WF_vars(Return)
    /\ \A w \in Threads : WF_wpc(Steps(w))

SpecFair == Spec /\ Fairness

(***************************************************************************)
(* C19  under fair scheduling the run comes to its end and stays there:    *)
(* search_directory has returned, every unit submitted has completed,      *)
(* normally or by raising, the units queued behind a unit that raised      *)
(* included, no thread waits for the lock, and the lock is free.           *)
(***************************************************************************)
C19_Terminates ==
    <>[](pc = "returned" /\ AllUnitsCompleted /\ lock = 0)

\* one thread: the first unit raised, and the unit queued behind it is done
C19_Witness ==
    /\ pc = "returned"
    /\ effective_workers = 1
    /\ futures = <<"raised", "done">>

(***************************************************************************)
(* C20  an exception that escapes process_file (is_excluded on a pattern   *)
(* that does not compile) stays in the future of its unit: the step that   *)
(* raises changes neither results nor matches_found nor files_processed,   *)
(* leaves the raising thread without the lock and idle, and does not move  *)
(* search_directory, which only ever walks, submits, waits and returns;    *)
(* the future stays raised, the file of a raised unit is no key of         *)
(* results, and files_processed counts no more than the units that did not *)
(* raise.                                                                  *)
(***************************************************************************)
C20_RaisedUnitConfined ==
    [][/\ \A i \in 1..Len(futures) :
            /\ (futures[i] # "raised" /\ futures'[i] = "raised") =>
                  /\ UNCHANGED <<shared, lock, pc>>
                  /\ \E w \in Threads :
                        wfile[w] = i /\ lock # w /\ wpc'[w] = "idle"
            /\ futures[i] = "raised" =>
                  /\ futures'[i] = "raised"
                  /\ all_files[i].path \notin DOMAIN results'
       /\ pc' \in {"walk", "submit", "wait", "returned"}
       /\ files_processed'
             <= Cardinality({i \in 1..Len(futures') :
                               futures'[i] \in {"running", "done"}})]_vars

\* two threads: the unit of the first file has raised, search_directory
\* has returned, the lock is free and nothing was counted
C20_Witness ==
    /\ pc = "returned"
    /\ effective_workers = 2
    /\ futures[1] = "raised"
    /\ lock = 0
    /\ results = <<>>
    /\ files_processed = 0
    /\ matches_found = 0
=============================================================================
